---- MODULE Spec2Model ----
(***************************************************************************)
(* Model of src/world.rs: resolution of a path against the regular-        *)
(* expression patterns of a Tiled world (World::match_path,                *)
(* World::match_paths, WorldPattern::match_path, match_path_impl).         *)
(*                                                                         *)
(* A path is a sequence of one-character strings.  Option<T> is a sequence *)
(* of length at most one: <<>> is None, <<v>> is Some(v).  The outcome of  *)
(* a call is a record tagged "Ok", "Err" or "Panic" (the call aborts).     *)
(***************************************************************************)
EXTENDS Integers, Sequences, FiniteSets, TLC

VARIABLES world, arg, self, called, ret

vars == <<world, arg, self, called, ret>>

(***************************************************************************)
(* Bounds of the model.                                                    *)
(***************************************************************************)
\* Width in bits of the model's i32.  The source's i32 has 32 bits; every
\* range, checked operation and parse below is written against I32_MIN and
\* I32_MAX, which derive from this width.
Bits == 5
\* Longest path of a single-path call.
MaxPathLen == 3
\* Longest pattern list of a World.
MaxPatterns == 2
\* Longest batch handed to World::match_paths, and its longest path.
MaxBatch == 2
MaxBatchPathLen == 2

(***************************************************************************)
(* i32 and its checked arithmetic.                                         *)
(***************************************************************************)
I32_MAX == 2 ^ (Bits - 1) - 1
I32_MIN == -(2 ^ (Bits - 1))
I32 == I32_MIN .. I32_MAX

None == <<>>
Some(v) == <<v>>
IsSome(o) == Len(o) = 1
Unwrap(o) == o[1]

\* i32::checked_mul: None when the mathematical product leaves the i32 range.
checked_mul(a, b) == IF a * b \in I32 THEN Some(a * b) ELSE None

\* i32::checked_add: None when the mathematical sum leaves the i32 range.
checked_add(a, b) == IF a + b \in I32 THEN Some(a + b) ELSE None

\* i32::checked_sub, used by the parse of a negative number.
checked_sub(a, b) == IF a - b \in I32 THEN Some(a - b) ELSE None

(***************************************************************************)
(* Results and errors.                                                     *)
(***************************************************************************)
NoMatchFound(path) == [kind |-> "NoMatchFound", path |-> path]
RangeError(msg) == [kind |-> "RangeError", msg |-> msg]

Ok(v) == [tag |-> "Ok", val |-> v]
Err(e) == [tag |-> "Err", err |-> e]
\* `expect`/`unwrap` on a None or an Err: the thread panics, the call returns nothing.
Panic == [tag |-> "Panic"]
\* The Vec<Result<WorldMap, Error>> World::match_paths returns.
Vec(items) == [tag |-> "Vec", items |-> items]
\* No call has been made yet.
Pending == [tag |-> "Pending"]

IsOk(r) == r.tag = "Ok"
IsErr(r) == r.tag = "Err"
IsPanic(r) == r.tag = "Panic"
IsNoMatch(r) == r.tag = "Err" /\ r.err.kind = "NoMatchFound"
IsRangeError(r) == r.tag = "Err" /\ r.err.kind = "RangeError"

WorldMap(filename, x, y, width, height) ==
    [filename |-> filename, x |-> x, y |-> y, width |-> width, height |-> height]

(***************************************************************************)
(* str::parse::<i32>: an optional sign, then one or more decimal digits,   *)
(* accumulated with checked arithmetic.  None stands for Err(ParseIntError)*)
(***************************************************************************)
DigitChars == {"0", "1", "2", "3", "4", "5", "6", "7", "8", "9"}

DigitVal(c) ==
    CASE c = "0" -> 0 [] c = "1" -> 1 [] c = "2" -> 2 [] c = "3" -> 3
      [] c = "4" -> 4 [] c = "5" -> 5 [] c = "6" -> 6 [] c = "7" -> 7
      [] c = "8" -> 8 [] c = "9" -> 9

RECURSIVE ParseDigits(_, _, _, _)
ParseDigits(s, i, acc, negative) ==
    IF i > Len(s) THEN Some(acc)
    ELSE IF s[i] \notin DigitChars THEN None
    ELSE LET m == checked_mul(acc, 10) IN
         IF ~IsSome(m) THEN None
         ELSE LET a == IF negative THEN checked_sub(Unwrap(m), DigitVal(s[i]))
                                   ELSE checked_add(Unwrap(m), DigitVal(s[i])) IN
              IF ~IsSome(a) THEN None
              ELSE ParseDigits(s, i + 1, Unwrap(a), negative)

ParseI32(s) ==
    IF Len(s) = 0 THEN None
    ELSE IF s[1] \in {"+", "-"}
         THEN IF Len(s) = 1 THEN None ELSE ParseDigits(s, 2, 0, s[1] = "-")
         ELSE ParseDigits(s, 1, 0, FALSE)

(***************************************************************************)
(* Regex::captures.  A regular expression is a sequence of nodes:          *)
(*   [t |-> "lit", c]            the literal character c                   *)
(*   [t |-> "grp", cls, plus, opt]                                         *)
(*        a capture group over the character class cls: ([cls]) when plus  *)
(*        is FALSE, ([cls]+) when TRUE (greedy), followed by ? when opt.   *)
(* The search is unanchored and leftmost-first: the earliest start wins,   *)
(* and at a start a greedy group tries its longest run first.              *)
(***************************************************************************)
Lit(c) == [t |-> "lit", c |-> c]
Grp(cls, plus, opt) == [t |-> "grp", cls |-> cls, plus |-> plus, opt |-> opt]

NoMatch == [ok |-> FALSE]

\* Length of the run of characters of cls in path from pos, at most limit.
RECURSIVE RunLen(_, _, _, _)
RunLen(path, pos, cls, limit) ==
    IF limit = 0 \/ pos > Len(path) \/ path[pos] \notin cls THEN 0
    ELSE 1 + RunLen(path, pos + 1, cls, limit - 1)

\* Match nodes k.. of rx against path from pos.  The result holds the end of
\* the match and, for every group among those nodes, its span or None.
RECURSIVE MatchFrom(_, _, _, _)
RECURSIVE MatchGroup(_, _, _, _, _)
MatchFrom(rx, k, path, pos) ==
    IF k > Len(rx) THEN [ok |-> TRUE, end |-> pos, groups |-> <<>>]
    ELSE IF rx[k].t = "lit"
         THEN IF pos <= Len(path) /\ path[pos] = rx[k].c
              THEN MatchFrom(rx, k + 1, path, pos + 1)
              ELSE NoMatch
         ELSE MatchGroup(rx, k, path, pos,
                         RunLen(path, pos, rx[k].cls,
                                IF rx[k].plus THEN Len(path) ELSE 1))

\* Group k taking n characters; on failure of the rest, n - 1; a group never
\* takes zero characters, but an optional group may be left out of the match.
MatchGroup(rx, k, path, pos, n) ==
    IF n = 0
    THEN IF rx[k].opt
         THEN LET rest == MatchFrom(rx, k + 1, path, pos) IN
              IF rest.ok
              THEN [ok |-> TRUE, end |-> rest.end, groups |-> <<None>> \o rest.groups]
              ELSE NoMatch
         ELSE NoMatch
    ELSE LET rest == MatchFrom(rx, k + 1, path, pos + n) IN
         IF rest.ok
         THEN [ok |-> TRUE, end |-> rest.end,
               groups |-> <<Some([s |-> pos, e |-> pos + n - 1])>> \o rest.groups]
         ELSE MatchGroup(rx, k, path, pos, n - 1)

\* Regex::captures(path): the leftmost match, or None.
RECURSIVE SearchFrom(_, _, _)
SearchFrom(rx, path, start) ==
    IF start > Len(path) + 1 THEN None
    ELSE LET m == MatchFrom(rx, 1, path, start) IN
         IF m.ok THEN Some([start |-> start, end |-> m.end, groups |-> m.groups])
         ELSE SearchFrom(rx, path, start + 1)

Captures(rx, path) == SearchFrom(rx, path, 1)

\* Captures::get(i) for i >= 1, as the matched text: None when the pattern
\* defines no group i, or when group i took no part in the match.
CapturesGet(captures, path, i) ==
    IF i > Len(captures.groups) \/ ~IsSome(captures.groups[i]) THEN None
    ELSE LET span == Unwrap(captures.groups[i]) IN Some(SubSeq(path, span.s, span.e))

(***************************************************************************)
(* WorldPattern::match_path_impl.                                          *)
(***************************************************************************)
\* Lines 138-146 (axis "x") and 148-156 (axis "y"): checked multiply, then
\* checked add, each with its own error.
MulOverflowMsg(axis) ==
    IF axis = "x" THEN "Capture x * multiplierX causes overflow"
                  ELSE "Capture y * multiplierY causes overflow"

\* Mutant: the add error carries the text of the multiply error.
AddOverflowMsg_SameAsMul(axis) == MulOverflowMsg(axis)

AddOverflowMsg(axis) ==
    IF axis = "x" THEN "Capture x * multiplierX + offsetX causes overflow"
                  ELSE "Capture y * multiplierY + offsetY causes overflow"

\* Mutant: only the final value is checked against the i32 range.
CoordTransform_CheckSumOnly(v, multiplier, offset, axis) ==
    IF v * multiplier + offset \in I32
    THEN Ok(v * multiplier + offset)
    ELSE Err(RangeError(AddOverflowMsg(axis)))

CoordTransform(v, multiplier, offset, axis) ==
    LET product == checked_mul(v, multiplier) IN
    IF ~IsSome(product)
    THEN Err(RangeError(MulOverflowMsg(axis)))
    ELSE LET sum == checked_add(Unwrap(product), offset) IN
         IF ~IsSome(sum)
         THEN Err(RangeError(AddOverflowMsg(axis)))
         ELSE Ok(Unwrap(sum))

\* Lines 137-164: the transforms of the two parsed captures, x first.
\* Mutant: the y transform uses the multiplier of the x axis.
TransformCaptures_XMultiplierForY(pattern, path, x, y) ==
    LET tx == CoordTransform(x, pattern.multiplier_x, pattern.offset_x, "x") IN
    IF ~IsOk(tx) THEN tx
    ELSE LET ty == CoordTransform(y, pattern.multiplier_x, pattern.offset_y, "y") IN
         IF ~IsOk(ty) THEN ty
         ELSE Ok(WorldMap(path, tx.val, ty.val, None, None))

TransformCaptures(pattern, path, x, y) ==
    LET tx == CoordTransform(x, pattern.multiplier_x, pattern.offset_x, "x") IN
    IF ~IsOk(tx) THEN tx
    ELSE LET ty == CoordTransform(y, pattern.multiplier_y, pattern.offset_y, "y") IN
         IF ~IsOk(ty) THEN ty
         ELSE Ok(WorldMap(path, tx.val, ty.val, None, None))

match_path_impl(pattern, path) ==
    LET captures == Captures(pattern.regexp, path) IN
    IF ~IsSome(captures) THEN Err(NoMatchFound(path))
    ELSE LET g1 == CapturesGet(Unwrap(captures), path, 1) IN
         IF ~IsSome(g1) THEN Err(NoMatchFound(path))
         ELSE LET x == ParseI32(Unwrap(g1)) IN
              IF ~IsSome(x) THEN Panic
              ELSE LET g2 == CapturesGet(Unwrap(captures), path, 2) IN
                   IF ~IsSome(g2) THEN Err(NoMatchFound(path))
                   ELSE LET y == ParseI32(Unwrap(g2)) IN
                        IF ~IsSome(y) THEN Panic
                        ELSE TransformCaptures(pattern, path, Unwrap(x), Unwrap(y))

\* WorldPattern::match_path: the path is valid UTF-8, so `expect` passes.
WorldPattern_match_path(pattern, path) == match_path_impl(pattern, path)

(***************************************************************************)
(* World::match_path and World::match_paths.                               *)
(***************************************************************************)
\* Mutant: every error of a pattern, not only NoMatchFound, lets the scan go on.
RECURSIVE MatchLoop_SkipAnyError(_, _, _)
MatchLoop_SkipAnyError(patterns, i, path) ==
    IF i > Len(patterns) THEN Err(NoMatchFound(path))
    ELSE LET r == match_path_impl(patterns[i], path) IN
         IF IsOk(r) \/ IsPanic(r) THEN r
         ELSE MatchLoop_SkipAnyError(patterns, i + 1, path)

\* The loop of lines 32-39 from pattern i on, then lines 41-43.
RECURSIVE MatchLoop(_, _, _)
MatchLoop(patterns, i, path) ==
    IF i > Len(patterns) THEN Err(NoMatchFound(path))
    ELSE LET r == match_path_impl(patterns[i], path) IN
         IF IsOk(r) THEN r
         ELSE IF IsNoMatch(r) THEN MatchLoop(patterns, i + 1, path)
         ELSE r

\* Mutant: the scan keeps the last pattern that matches, not the first.
RECURSIVE LastMatchLoop(_, _, _, _)
LastMatchLoop(patterns, i, path, best) ==
    IF i > Len(patterns) THEN best
    ELSE LET r == match_path_impl(patterns[i], path) IN
         IF IsOk(r) THEN LastMatchLoop(patterns, i + 1, path, r)
         ELSE IF IsNoMatch(r) THEN LastMatchLoop(patterns, i + 1, path, best)
         ELSE r

World_match_path_LastWins(w, path) ==
    LastMatchLoop(w.patterns, 1, path, Err(NoMatchFound(path)))

\* Mutant: an explicit map entry named like the path is returned first.
World_match_path_ConsultingMaps(w, path) ==
    IF \E k \in DOMAIN w.maps : w.maps[k].filename = path
    THEN Ok(w.maps[CHOOSE k \in DOMAIN w.maps : w.maps[k].filename = path])
    ELSE MatchLoop(w.patterns, 1, path)

World_match_path(w, path) == MatchLoop(w.patterns, 1, path)

\* paths.into_iter().map(|path| self.match_path(path)).collect(): one result
\* per path, in order; a panic inside the closure unwinds out of the call.
RECURSIVE MapMatchPath(_, _, _, _)
MapMatchPath(w, paths, i, acc) ==
    IF i > Len(paths) THEN Vec(acc)
    ELSE LET r == World_match_path(w, paths[i]) IN
         IF IsPanic(r) THEN Panic
         ELSE MapMatchPath(w, paths, i + 1, Append(acc, r))

World_match_paths(w, paths) == MapMatchPath(w, paths, 1, <<>>)

(***************************************************************************)
(* The inputs: paths, regular expressions, patterns and worlds.            *)
(***************************************************************************)
Digit == {"1", "2"}
Word == {"a", "1", "2"}
Alphabet == {"a", "1", "2"}

PathsUpTo(n) == UNION {[1 .. k -> Alphabet] : k \in 0 .. n}
Paths == PathsUpTo(MaxPathLen)

\* (\d+)a(\d+)
RxXaY == <<Grp(Digit, TRUE, FALSE), Lit("a"), Grp(Digit, TRUE, FALSE)>>
\* (\d+)(\d)
RxXY == <<Grp(Digit, TRUE, FALSE), Grp(Digit, FALSE, FALSE)>>
\* (\d+): no second group
RxOne == <<Grp(Digit, TRUE, FALSE)>>
\* (\d+)a(\d+)?: the second group may take no part in the match
RxOptY == <<Grp(Digit, TRUE, FALSE), Lit("a"), Grp(Digit, TRUE, TRUE)>>
\* (\d+)?a(\d): the first group may take no part in the match
RxOptX == <<Grp(Digit, TRUE, TRUE), Lit("a"), Grp(Digit, FALSE, FALSE)>>
\* (\w+)(\d): the first capture need not be a number
RxWord == <<Grp(Word, TRUE, FALSE), Grp(Digit, FALSE, FALSE)>>
\* a: no group at all
RxNone == <<Lit("a")>>

Regexes == {RxXaY, RxXY, RxOne, RxOptY, RxOptX, RxWord, RxNone}

WorldPattern(regexp, mx, ox, my, oy) ==
    [regexp |-> regexp, multiplier_x |-> mx, offset_x |-> ox,
     multiplier_y |-> my, offset_y |-> oy]

\* <<multiplier_x, offset_x, multiplier_y, offset_y>>: with the captures 1
\* and 2 each axis succeeds, overflows in the multiply, or overflows in the add.
ParamsA == <<2, 1, I32_MAX, 0>>
ParamsB == <<1, I32_MAX - 1, I32_MAX, I32_MIN>>
ParamsC == <<I32_MAX, I32_MIN, 1, I32_MAX - 1>>
Params == {ParamsA, ParamsB, ParamsC}

Pattern(rx, p) == WorldPattern(rx, p[1], p[2], p[3], p[4])

AllPatterns == {Pattern(rx, p) : rx \in Regexes, p \in Params}

\* The patterns of the worlds that hold more than one.
ListPatterns ==
    { Pattern(RxXaY, ParamsA), Pattern(RxXaY, ParamsB),
      Pattern(RxXY, ParamsA), Pattern(RxXY, ParamsC),
      Pattern(RxOne, ParamsB), Pattern(RxOptY, ParamsC),
      Pattern(RxOptX, ParamsA), Pattern(RxWord, ParamsB) }

PatternLists ==
    {<<p>> : p \in AllPatterns}
        \cup UNION {[1 .. k -> ListPatterns] : k \in 0 .. MaxPatterns}

\* The explicit maps of a world: none, or one entry named "a".
MapLists == {<<>>, <<WorldMap(<<"a">>, 0, 0, Some(1), Some(1))>>}

World(maps, patterns) == [source |-> "w.world", maps |-> maps, patterns |-> patterns]

Worlds == {World(m, ps) : m \in MapLists, ps \in PatternLists}

(***************************************************************************)
(* Single-path calls on a World and on one of its patterns.                *)
(***************************************************************************)
Init ==
    /\ world \in Worlds
    /\ arg \in Paths
    /\ self = 0
    /\ called = "none"
    /\ ret = Pending

\* World::match_path(&self, path)
WorldMatchPath ==
    /\ called = "none"
    /\ called' = "World::match_path"
    /\ ret' = World_match_path(world, arg)
    /\ UNCHANGED <<world, arg, self>>

\* WorldPattern::match_path(&self, path) on the k-th pattern of the world
PatternMatchPath ==
    \E k \in DOMAIN world.patterns :
        /\ called = "none"
        /\ called' = "WorldPattern::match_path"
        /\ self' = k
        /\ ret' = WorldPattern_match_path(world.patterns[k], arg)
        /\ UNCHANGED <<world, arg>>

Next == WorldMatchPath \/ PatternMatchPath

Spec == Init /\ [][Next]_vars

(***************************************************************************)
(* Batch calls.                                                            *)
(***************************************************************************)
BatchPaths == PathsUpTo(MaxBatchPathLen)

BatchPatterns == {Pattern(RxXY, ParamsA), Pattern(RxWord, ParamsC)}

BatchWorlds ==
    {World(<<>>, ps) : ps \in UNION {[1 .. k -> BatchPatterns] : k \in 0 .. MaxPatterns}}

InitBatch ==
    /\ world \in BatchWorlds
    /\ arg \in UNION {[1 .. k -> BatchPaths] : k \in 0 .. MaxBatch}
    /\ self = 0
    /\ called = "none"
    /\ ret = Pending

\* World::match_paths(&self, paths)
WorldMatchPaths ==
    /\ called = "none"
    /\ called' = "World::match_paths"
    /\ ret' = World_match_paths(world, arg)
    /\ UNCHANGED <<world, arg, self>>

NextBatch == WorldMatchPaths

SpecBatch == InitBatch /\ [][NextBatch]_vars

(***************************************************************************)
(* The coordinate transform on its own, over the whole i32 range.          *)
(***************************************************************************)
InitTransform ==
    /\ world = World(<<>>, <<>>)
    /\ arg \in [v : I32, multiplier : I32, offset : I32, axis : {"x", "y"}]
    /\ self = 0
    /\ called = "none"
    /\ ret = Pending

\* Lines 138-156 applied to one captured integer.
ApplyCoordTransform ==
    /\ called = "none"
    /\ called' = "CoordTransform"
    /\ ret' = CoordTransform(arg.v, arg.multiplier, arg.offset, arg.axis)
    /\ UNCHANGED <<world, arg, self>>

NextTransform == ApplyCoordTransform

SpecTransform == InitTransform /\ [][NextTransform]_vars

(***************************************************************************)
(* Properties.                                                             *)
(***************************************************************************)
\* The outcome of the i-th pattern of the world on the path of the call.
PatternOutcome(i) == match_path_impl(world.patterns[i], arg)

\* Pattern i is the first whose outcome is not NoMatchFound.
FirstDeciding(i) ==
    /\ ~IsNoMatch(PatternOutcome(i))
    /\ \A j \in 1 .. (i - 1) : IsNoMatch(PatternOutcome(j))

\* The pattern WorldPattern::match_path was called on, its captures and the
\* integer a capture group denotes.
SelfPattern == world.patterns[self]
SelfCaptures == Captures(SelfPattern.regexp, arg)
SelfGroup(i) == CapturesGet(Unwrap(SelfCaptures), arg, i)
SelfInt(i) == ParseI32(Unwrap(SelfGroup(i)))

\* C1: World::match_path is first-match-wins: when pattern i is the first
\* whose outcome is not NoMatchFound and it matches, the result is exactly
\* the WorldMap of pattern i alone, whatever later patterns would produce.
C1_FirstMatchWins ==
    called = "World::match_path" =>
        \A i \in DOMAIN world.patterns :
            (FirstDeciding(i) /\ IsOk(PatternOutcome(i))) => ret = PatternOutcome(i)

\* Two patterns match the path with different maps; the first one's is returned.
C1_Witness ==
    /\ called = "World::match_path"
    /\ Len(world.patterns) >= 2
    /\ IsOk(PatternOutcome(1))
    /\ IsOk(PatternOutcome(2))
    /\ PatternOutcome(1) # PatternOutcome(2)
    /\ ret = PatternOutcome(1)

\* C2: when the first pattern whose outcome is not NoMatchFound yields an
\* overflow error, World::match_path returns that error and tries no later
\* pattern, even one that would match; the scan goes past a pattern only
\* when that pattern's outcome is NoMatchFound.
C2_OverflowAborts ==
    called = "World::match_path" =>
        \A i \in DOMAIN world.patterns :
            /\ (FirstDeciding(i) /\ IsRangeError(PatternOutcome(i)))
                   => ret = PatternOutcome(i)
            /\ (ret = PatternOutcome(i) /\ ~IsNoMatch(ret))
                   => \E k \in 1 .. i : FirstDeciding(k) /\ PatternOutcome(k) = ret

\* The first pattern overflows, the second would match: the overflow is returned.
C2_Witness ==
    /\ called = "World::match_path"
    /\ Len(world.patterns) >= 2
    /\ IsRangeError(PatternOutcome(1))
    /\ IsOk(PatternOutcome(2))
    /\ ret = PatternOutcome(1)

\* C3: a successful WorldPattern::match_path returns x = c_x * multiplier_x
\* + offset_x and y = c_y * multiplier_y + offset_y for the integers c_x, c_y
\* of the first two captures, the whole input path as filename, and no
\* width or height.
C3_SuccessIsAffine ==
    (called = "WorldPattern::match_path" /\ IsOk(ret)) =>
        /\ ret.val.x = Unwrap(SelfInt(1)) * SelfPattern.multiplier_x + SelfPattern.offset_x
        /\ ret.val.y = Unwrap(SelfInt(2)) * SelfPattern.multiplier_y + SelfPattern.offset_y
        /\ ret.val.filename = arg
        /\ ret.val.width = None
        /\ ret.val.height = None

\* A success whose match is a proper part of the path and whose two axes use
\* different multipliers on different captures.
C3_Witness ==
    /\ called = "WorldPattern::match_path"
    /\ IsOk(ret)
    /\ Unwrap(SelfCaptures).end - Unwrap(SelfCaptures).start < Len(arg)
    /\ SelfPattern.multiplier_x # SelfPattern.multiplier_y
    /\ ret.val.x # Unwrap(SelfInt(1))
    /\ ret.val.x # ret.val.y

\* C4: the coordinate transform of v, multiplier and offset succeeds exactly
\* when both v * multiplier and v * multiplier + offset lie in the i32
\* range, and then yields v * multiplier + offset; otherwise it fails with
\* an overflow error, also when the sum alone would be back in range.
C4_CheckedTransform ==
    called = "CoordTransform" =>
        LET product == arg.v * arg.multiplier
            sum == arg.v * arg.multiplier + arg.offset
        IN  /\ IsOk(ret) <=> (product \in I32 /\ sum \in I32)
            /\ IsOk(ret) => ret.val = sum
            /\ ~IsOk(ret) => IsRangeError(ret)

\* The product is out of range, the sum is back in range, the result an error.
C4_Witness ==
    /\ called = "CoordTransform"
    /\ arg.v * arg.multiplier \notin I32
    /\ arg.v * arg.multiplier + arg.offset \in I32
    /\ IsRangeError(ret)

\* The errors of a multiply overflow and of an add overflow on an axis.
C5_MulError(axis) == CoordTransform(I32_MAX, 2, 0, axis)
C5_AddError(axis) == CoordTransform(I32_MAX, 1, 1, axis)

\* C5: the overflow error names the axis and the operation: a product out
\* of range yields the multiply error of the axis, a sum out of range the
\* add error of the axis, and the four errors differ from one another.
C5_ErrorNamesAxisAndOperation ==
    called = "CoordTransform" =>
        LET product == arg.v * arg.multiplier
            other == IF arg.axis = "x" THEN "y" ELSE "x"
        IN  /\ product \notin I32 =>
                /\ ret = C5_MulError(arg.axis)
                /\ ret \notin {C5_MulError(other), C5_AddError("x"), C5_AddError("y")}
            /\ (product \in I32 /\ product + arg.offset \notin I32) =>
                /\ ret = C5_AddError(arg.axis)
                /\ ret \notin {C5_AddError(other), C5_MulError("x"), C5_MulError("y")}
            /\ IsRangeError(ret) =>
                ret.err.msg \in
                    { "Capture x * multiplierX causes overflow",
                      "Capture x * multiplierX + offsetX causes overflow",
                      "Capture y * multiplierY causes overflow",
                      "Capture y * multiplierY + offsetY causes overflow" }

\* An add overflow on the y axis.
C5_Witness ==
    /\ called = "CoordTransform"
    /\ arg.axis = "y"
    /\ arg.v * arg.multiplier \in I32
    /\ arg.v * arg.multiplier + arg.offset \notin I32
    /\ ret = Err(RangeError("Capture y * multiplierY + offsetY causes overflow"))

\* C6: WorldPattern::match_path returns NoMatchFound with the input path
\* whenever the expression matches nowhere, and whenever it matches but
\* the first or the second capture group is absent.
C6_AbsentGroupIsNoMatch ==
    called = "WorldPattern::match_path" =>
        ((~IsSome(SelfCaptures) \/ ~IsSome(SelfGroup(1)) \/ ~IsSome(SelfGroup(2)))
            => ret = Err(NoMatchFound(arg)))

\* C7: World::match_path fails with NoMatchFound carrying the path when the
\* world has no pattern and when every pattern yields NoMatchFound, also
\* when an explicit map entry is named like the path.
C7_ExhaustedIsNoMatch ==
    called = "World::match_path" =>
        ((\A i \in DOMAIN world.patterns : IsNoMatch(PatternOutcome(i)))
            => ret = Err(NoMatchFound(arg)))

\* An explicit map is named like the path, a pattern exists, none matches.
C7_Witness ==
    /\ called = "World::match_path"
    /\ \E k \in DOMAIN world.maps : world.maps[k].filename = arg
    /\ Len(world.patterns) >= 1
    /\ \A i \in DOMAIN world.patterns : IsNoMatch(PatternOutcome(i))
    /\ ret = Err(NoMatchFound(arg))

\* C8: World::match_paths returns one result per path, in order, the i-th
\* equal to World::match_path of the i-th path.
C8_BatchIsElementwise ==
    called = "World::match_paths" =>
        /\ ret.tag = "Vec"
        /\ Len(ret.items) = Len(arg)
        /\ \A i \in DOMAIN arg : ret.items[i] = World_match_path(world, arg[i])

\* C9: a resolution call always returns: exactly one WorldMap or exactly
\* one error, never a panic, whatever text the captures hold.
C9_CallReturns ==
    called \in {"World::match_path", "WorldPattern::match_path"} =>
        IsOk(ret) \/ IsErr(ret)

\* C10: WorldPattern::match_path reports the first failing check in the
\* order regex match, group 1, group 2, x multiply, x add, y multiply, y add:
\* a match without its second group is NoMatchFound, and when both axes
\* overflow the error of the x axis is returned.
C10_CheckOrder ==
    called = "WorldPattern::match_path" =>
        /\ (IsSome(SelfCaptures) /\ IsSome(SelfGroup(1)) /\ ~IsSome(SelfGroup(2)))
               => ret = Err(NoMatchFound(arg))
        /\ (/\ IsSome(SelfCaptures) /\ IsSome(SelfGroup(1)) /\ IsSome(SelfGroup(2))
            /\ IsSome(SelfInt(1)) /\ IsSome(SelfInt(2)))
               => LET tx == CoordTransform(Unwrap(SelfInt(1)), SelfPattern.multiplier_x,
                                           SelfPattern.offset_x, "x")
                  IN  ~IsOk(tx) => ret = tx

====
